---- MODULE Spec2Model ----
(***************************************************************************)
(* Model of generate_assets.py: the batch asset generator.                 *)
(*                                                                         *)
(* The script is one sequential process: it prepares the output directory, *)
(* runs the generation loop over the list `images`, then the summary pass, *)
(* and prints DONE.  The list is a fixed constant of the script; the       *)
(* model keeps only its length n (drawn from 0..MaxN) and names the        *)
(* entries by their 1-based position, which is sound because the filenames *)
(* of the list are pairwise distinct and os.path.join(ASSETS, filename) is *)
(* injective in filename.  The aspect ratio and the prompt are passed      *)
(* through to the service and never inspected.                             *)
(*                                                                         *)
(* The environment (replicate.run, urllib.request.urlretrieve, the file    *)
(* system) answers nondeterministically.  `events` is the ordered log of   *)
(* the script's observable effects: the lines it prints, the service and   *)
(* download calls it makes and its sleeps.                                 *)
(***************************************************************************)
EXTENDS Integers, Sequences, FiniteSets, TLC

\* Longest list of asset requests explored.
MaxN == 3

\* Number of times the script is executed against the same directory.
MaxRuns == 2

\* time.sleep(65)
PaceSeconds == 65

VARIABLES
    pc,         \* position of the script
    n,          \* len(images)
    i,          \* enumerate's index of the current item (0-based), -1 before the loop
    j,          \* number of entries the summary pass has handled
    run,        \* which execution of the script this is (1-based)
    dirExists,  \* whether the directory ASSETS exists
    disk,       \* disk[k]: content of ASSETS/<filename k>
    prev,       \* disk as it was when this execution started
    svc,        \* svc[k]: how replicate.run answered for item k in this execution
    dl,         \* dl[k]: how urlretrieve answered for item k in this execution
    events,     \* log of prints, calls and sleeps of this execution
    slept       \* seconds slept in this execution

vars == <<pc, n, i, j, run, dirExists, disk, prev, svc, dl, events, slept>>

\* No file at that path.
NoFile == <<>>

\* The bytes run r's download wrote: all of them, or a truncated part.
Whole(r) == <<r, "whole">>
Partial(r) == <<r, "partial">>

Items == 1..n

\* os.path.exists(filepath)
Exists(k) == disk[k] # NoFile

Emit(e, k) == events' = Append(events, <<e, k>>)

Init ==
    /\ pc = "makedirs"
    /\ n \in 0..MaxN
    /\ i = -1
    /\ j = 0
    /\ run = 1
    /\ dirExists \in BOOLEAN
    /\ disk = [k \in 1..n |-> NoFile]
    /\ prev = disk
    /\ svc = [k \in 1..n |-> "none"]
    /\ dl = [k \in 1..n |-> "none"]
    /\ events = <<>>
    /\ slept = 0

\* os.makedirs(ASSETS, exist_ok=False): an existing directory is an error.
MakeDirsStrict ==
    /\ pc = "makedirs"
    /\ \/ /\ dirExists
          /\ pc' = "aborted"
          /\ UNCHANGED dirExists
       \/ /\ ~dirExists
          /\ dirExists' = TRUE
          /\ pc' = "for"
       \/ /\ ~dirExists
          /\ pc' = "aborted"
          /\ UNCHANGED dirExists
    /\ UNCHANGED <<n, i, j, run, disk, prev, svc, dl, events, slept>>

\* Line 9: os.makedirs(ASSETS, exist_ok=True).  An existing directory is
\* accepted; a missing one is created, or the OSError propagates and ends
\* the script before anything is printed.
MakeDirs ==
    /\ pc = "makedirs"
    /\ \/ /\ dirExists
          /\ pc' = "for"
          /\ UNCHANGED dirExists
       \/ /\ ~dirExists
          /\ dirExists' = TRUE
          /\ pc' = "for"
       \/ /\ ~dirExists
          /\ pc' = "aborted"
          /\ UNCHANGED dirExists
    /\ UNCHANGED <<n, i, j, run, disk, prev, svc, dl, events, slept>>

\* A loop that never notices the end of the list.
ForNextNoExit ==
    /\ pc = "for"
    /\ IF i + 1 < n
         THEN /\ i' = i + 1
              /\ Emit("progress", i + 2)
              /\ pc' = "try"
         ELSE UNCHANGED <<i, events, pc>>
    /\ UNCHANGED <<n, j, run, dirExists, disk, prev, svc, dl, slept>>

\* Lines 29-30: the for statement takes the next entry of enumerate(images)
\* and prints the progress line, or leaves the loop when the list is used up.
ForNext ==
    /\ pc = "for"
    /\ IF i + 1 < n
         THEN /\ i' = i + 1
              /\ Emit("progress", i + 2)
              /\ pc' = "try"
         ELSE /\ pc' = "header"
              /\ UNCHANGED <<i, events>>
    /\ UNCHANGED <<n, j, run, dirExists, disk, prev, svc, dl, slept>>

\* Lines 32-36: replicate.run(...) returns an output (url = str(output)) or
\* raises.
Generate ==
    /\ pc = "try"
    /\ Emit("call", i + 1)
    /\ \/ /\ svc' = [svc EXCEPT ![i + 1] = "ok"]
          /\ pc' = "retrieve"
       \/ /\ svc' = [svc EXCEPT ![i + 1] = "fail"]
          /\ pc' = "except"
    /\ UNCHANGED <<n, i, j, run, dirExists, disk, prev, dl, slept>>

\* urlretrieve(url) with no filename: the bytes go to a temporary file.
RetrieveToTemp ==
    /\ pc = "retrieve"
    /\ Emit("fetch", i + 1)
    /\ \/ /\ dirExists
          /\ dl' = [dl EXCEPT ![i + 1] = "ok"]
          /\ UNCHANGED disk
          /\ pc' = "saved"
       \/ /\ dl' = [dl EXCEPT ![i + 1] = "fail_nowrite"]
          /\ UNCHANGED disk
          /\ pc' = "except"
       \/ /\ dirExists
          /\ dl' = [dl EXCEPT ![i + 1] = "fail_partial"]
          /\ UNCHANGED disk
          /\ pc' = "except"
    /\ UNCHANGED <<n, i, j, run, dirExists, prev, svc, slept>>

\* Download only when the file is not there yet.
RetrieveSkipExisting ==
    /\ pc = "retrieve"
    /\ Emit("fetch", i + 1)
    /\ \/ /\ dirExists
          /\ dl' = [dl EXCEPT ![i + 1] = "ok"]
          /\ disk' = IF Exists(i + 1) THEN disk
                     ELSE [disk EXCEPT ![i + 1] = Whole(run)]
          /\ pc' = "saved"
       \/ /\ dl' = [dl EXCEPT ![i + 1] = "fail_nowrite"]
          /\ UNCHANGED disk
          /\ pc' = "except"
       \/ /\ dirExists
          /\ dl' = [dl EXCEPT ![i + 1] = "fail_partial"]
          /\ disk' = IF Exists(i + 1) THEN disk
                     ELSE [disk EXCEPT ![i + 1] = Partial(run)]
          /\ pc' = "except"
    /\ UNCHANGED <<n, i, j, run, dirExists, prev, svc, slept>>

\* Download to a temporary file and rename on success: a failed download
\* leaves the destination as it was.
RetrieveAtomic ==
    /\ pc = "retrieve"
    /\ Emit("fetch", i + 1)
    /\ \/ /\ dirExists
          /\ dl' = [dl EXCEPT ![i + 1] = "ok"]
          /\ disk' = [disk EXCEPT ![i + 1] = Whole(run)]
          /\ pc' = "saved"
       \/ /\ dl' = [dl EXCEPT ![i + 1] = "fail_nowrite"]
          /\ UNCHANGED disk
          /\ pc' = "except"
       \/ /\ dirExists
          /\ dl' = [dl EXCEPT ![i + 1] = "fail_partial"]
          /\ UNCHANGED disk
          /\ pc' = "except"
    /\ UNCHANGED <<n, i, j, run, dirExists, prev, svc, slept>>

\* Lines 37-38: filepath = os.path.join(ASSETS, filename);
\* urllib.request.urlretrieve(url, filepath).  urlretrieve opens the URL,
\* then opens filepath for writing (which truncates an existing file), then
\* copies the response block by block.  It returns with the whole file
\* written, or raises before the file was opened (the file is untouched),
\* or raises after it was opened (a truncated file stays).
Retrieve ==
    /\ pc = "retrieve"
    /\ Emit("fetch", i + 1)
    /\ \/ /\ dirExists
          /\ dl' = [dl EXCEPT ![i + 1] = "ok"]
          /\ disk' = [disk EXCEPT ![i + 1] = Whole(run)]
          /\ pc' = "saved"
       \/ /\ dl' = [dl EXCEPT ![i + 1] = "fail_nowrite"]
          /\ UNCHANGED disk
          /\ pc' = "except"
       \/ /\ dirExists
          /\ dl' = [dl EXCEPT ![i + 1] = "fail_partial"]
          /\ disk' = [disk EXCEPT ![i + 1] = Partial(run)]
          /\ pc' = "except"
    /\ UNCHANGED <<n, i, j, run, dirExists, prev, svc, slept>>

\* Lines 39-40: size = os.path.getsize(filepath); print "OK Saved".
Saved ==
    /\ pc = "saved"
    /\ Emit("saved", i + 1)
    /\ pc' = "pace"
    /\ UNCHANGED <<n, i, j, run, dirExists, disk, prev, svc, dl, slept>>

\* A handler that gives up on the rest of the list.
ExceptBreak ==
    /\ pc = "except"
    /\ Emit("fail", i + 1)
    /\ pc' = "header"
    /\ UNCHANGED <<n, i, j, run, dirExists, disk, prev, svc, dl, slept>>

\* A handler that removes whatever is at filepath.
ExceptCleanup ==
    /\ pc = "except"
    /\ Emit("fail", i + 1)
    /\ disk' = [disk EXCEPT ![i + 1] = NoFile]
    /\ pc' = "pace"
    /\ UNCHANGED <<n, i, j, run, dirExists, prev, svc, dl, slept>>

\* A handler that tries the item again.
ExceptRetry ==
    /\ pc = "except"
    /\ Emit("fail", i + 1)
    /\ pc' = "try"
    /\ UNCHANGED <<n, i, j, run, dirExists, disk, prev, svc, dl, slept>>

\* Lines 41-42: except Exception as e: print "FAIL".  Nothing else is done:
\* no retry, no removal of the file, no exit.
Except ==
    /\ pc = "except"
    /\ Emit("fail", i + 1)
    /\ pc' = "pace"
    /\ UNCHANGED <<n, i, j, run, dirExists, disk, prev, svc, dl, slept>>

\* if i < len(images): the pause follows the last item too.
PaceAlways ==
    /\ pc = "pace"
    /\ IF i < n
         THEN /\ Emit("wait", i + 1)
              /\ pc' = "sleep"
         ELSE /\ pc' = "for"
              /\ UNCHANGED events
    /\ UNCHANGED <<n, i, j, run, dirExists, disk, prev, svc, dl, slept>>

\* Lines 44-45: if i < len(images) - 1: print "Waiting 65s...".
Pace ==
    /\ pc = "pace"
    /\ IF i < n - 1
         THEN /\ Emit("wait", i + 1)
              /\ pc' = "sleep"
         ELSE /\ pc' = "for"
              /\ UNCHANGED events
    /\ UNCHANGED <<n, i, j, run, dirExists, disk, prev, svc, dl, slept>>

\* Line 46: time.sleep(65) returns.
Sleep ==
    /\ pc = "sleep"
    /\ Emit("sleep", i + 1)
    /\ slept' = slept + PaceSeconds
    /\ pc' = "for"
    /\ UNCHANGED <<n, i, j, run, dirExists, disk, prev, svc, dl>>

\* Lines 48-50: the rule, "SUMMARY", the rule.
Header ==
    /\ pc = "header"
    /\ Emit("header", 0)
    /\ pc' = "summary"
    /\ UNCHANGED <<n, i, j, run, dirExists, disk, prev, svc, dl, slept>>

\* A summary that repeats what the loop reported instead of looking at the
\* directory.
SummaryFromLoop ==
    /\ pc = "summary"
    /\ j < n
    /\ IF \E p \in DOMAIN events : events[p] = <<"saved", j + 1>>
         THEN Emit("present", j + 1)
         ELSE Emit("missing", j + 1)
    /\ j' = j + 1
    /\ UNCHANGED <<pc, n, i, run, dirExists, disk, prev, svc, dl, slept>>

\* Lines 51-57: one entry of the summary pass: os.path.exists(filepath)
\* decides between the "OK" line and the "MISSING" line.
Summary ==
    /\ pc = "summary"
    /\ j < n
    /\ IF Exists(j + 1)
         THEN Emit("present", j + 1)
         ELSE Emit("missing", j + 1)
    /\ j' = j + 1
    /\ UNCHANGED <<pc, n, i, run, dirExists, disk, prev, svc, dl, slept>>

\* Line 58: print("DONE") once the summary loop has used up the list.
Done ==
    /\ pc = "summary"
    /\ j = n
    /\ Emit("done", 0)
    /\ pc' = "done"
    /\ UNCHANGED <<n, i, j, run, dirExists, disk, prev, svc, dl, slept>>

\* The script is started again on the same directory: a new process with a
\* fresh output stream; the directory and its files stay as they are.
Rerun ==
    /\ pc \in {"done", "aborted"}
    /\ run < MaxRuns
    /\ run' = run + 1
    /\ pc' = "makedirs"
    /\ i' = -1
    /\ j' = 0
    /\ prev' = disk
    /\ svc' = [k \in 1..n |-> "none"]
    /\ dl' = [k \in 1..n |-> "none"]
    /\ events' = <<>>
    /\ slept' = 0
    /\ UNCHANGED <<n, dirExists, disk>>

Next ==
    \/ MakeDirs
    \/ ForNext
    \/ Generate
    \/ Retrieve
    \/ Saved
    \/ Except
    \/ Pace
    \/ Sleep
    \/ Header
    \/ Summary
    \/ Done
    \/ Rerun

Spec == Init /\ [][Next]_vars

\* Every call of the script returns or fails, and a finished script may be
\* started again: a step that can be taken is eventually taken.
FairSpec == Spec /\ WF_vars(Next)

TypeOK ==
    /\ pc \in {"makedirs", "aborted", "for", "try", "retrieve", "saved", "except",
               "pace", "sleep", "header", "summary", "done"}
    /\ n \in 0..MaxN
    /\ i \in -1..(n - 1)
    /\ j \in 0..n
    /\ run \in 1..MaxRuns
    /\ dirExists \in BOOLEAN
    /\ DOMAIN disk = 1..n
    /\ DOMAIN prev = 1..n
    /\ \A k \in 1..n : svc[k] \in {"none", "ok", "fail"}
    /\ \A k \in 1..n : dl[k] \in {"none", "ok", "fail_nowrite", "fail_partial"}
    /\ slept >= 0

(***************************************************************************)
(* Vocabulary of the properties.                                           *)
(***************************************************************************)

Count(e, k) == Len(SelectSeq(events, LAMBDA ev : ev = <<e, k>>))

Has(e, k) == \E p \in DOMAIN events : events[p] = <<e, k>>

IsCall(ev) == ev[1] = "call"

IsSleep(ev) == ev[1] = "sleep"

\* The per-item outcome lines of the loop: "OK Saved" and "FAIL".
IsNotice(ev) == ev[1] \in {"saved", "fail"}

\* The calls, the notices and the sleeps of the loop.
IsMark(ev) == ev[1] \in {"call", "saved", "fail", "sleep"}

\* The loop has been left and the script has not ended abnormally.
LoopOver == pc \in {"header", "summary", "done"}

\* The loop is through with item k: its notice is out.
Handled(k) ==
    \/ k <= i
    \/ k = i + 1 /\ pc \notin {"try", "retrieve", "saved", "except"}

Failed(k) == svc[k] = "fail" \/ dl[k] \in {"fail_nowrite", "fail_partial"}

AllOk == \A k \in Items : svc[k] = "ok" /\ dl[k] = "ok"

\* The previous execution downloaded every file of the list.
PrevRunAllOk == \A k \in Items : prev[k] = Whole(run - 1)

\* In this execution the service failed for item k and for no other item,
\* and every other download succeeded.
OnlyServiceFailure(k) ==
    /\ svc[k] = "fail"
    /\ \A m \in Items \ {k} : svc[m] = "ok" /\ dl[m] = "ok"

\* Position of the summary header in the log (0 when it is not printed yet).
HeaderAt ==
    IF Has("header", 0)
      THEN CHOOSE p \in DOMAIN events : events[p] = <<"header", 0>>
      ELSE 0

\* Number of pauses a complete run over the list has.
Pauses == IF n >= 2 THEN n - 1 ELSE 0

(***************************************************************************)
(* C1                                                                      *)
(***************************************************************************)

\* C1: the service is invoked exactly once per item and in list order: the
\* calls made so far are the calls for items 1, 2, ..., m, and once the loop
\* is left m = n, whatever failed on the way.
C1_OncePerItemInOrder ==
    LET calls == SelectSeq(events, IsCall) IN
    /\ \A p \in DOMAIN calls : calls[p] = <<"call", p>>
    /\ Len(calls) <= n
    /\ Len(calls) = (IF pc = "try" THEN i ELSE i + 1)
    /\ LoopOver => Len(calls) = n

C1_Witness ==
    /\ pc = "done"
    /\ n >= 3
    /\ svc[1] = "fail"
    /\ dl[2] = "fail_nowrite"
    /\ Count("call", 1) = 1
    /\ Count("call", n) = 1

(***************************************************************************)
(* C2                                                                      *)
(***************************************************************************)

\* C2: a complete run over n items sleeps 65 s exactly n - 1 times (never
\* when n <= 1).  The calls, notices and sleeps of a run come in the order
\* call 1, notice 1, sleep 1, call 2, notice 2, sleep 2, ..., call n,
\* notice n: the sleep after item k follows the notice of item k (success
\* or failure), precedes the call for item k + 1, and exists only for k < n.
C2_PacingBetweenItems ==
    LET marks == SelectSeq(events, IsMark) IN
    /\ \A p \in DOMAIN marks :
          LET k == ((p - 1) \div 3) + 1
              r == (p - 1) % 3
          IN  /\ r = 0 => marks[p] = <<"call", k>>
              /\ r = 1 => marks[p] \in {<<"saved", k>>, <<"fail", k>>}
              /\ r = 2 => marks[p] = <<"sleep", k>> /\ k < n
    /\ slept = PaceSeconds * Len(SelectSeq(events, IsSleep))
    /\ LoopOver => /\ Len(SelectSeq(events, IsSleep)) = Pauses
                   /\ slept = PaceSeconds * Pauses

C2_Witness ==
    /\ pc = "done"
    /\ n >= 3
    /\ svc[1] = "fail"
    /\ svc[2] = "ok"
    /\ slept = PaceSeconds * (n - 1)

(***************************************************************************)
(* C3                                                                      *)
(***************************************************************************)

\* C3: when every service call and every download of the run succeeded,
\* every file of the list exists once the loop is over, and the finished
\* summary has a present line for every item and no MISSING line.
C3_AllSucceedAllPresent ==
    /\ (LoopOver /\ AllOk) => \A k \in Items : Exists(k)
    /\ (pc = "done" /\ AllOk) =>
          \A k \in Items : Count("present", k) = 1 /\ ~Has("missing", k)

C3_Witness ==
    /\ pc = "done"
    /\ run = 1
    /\ n >= 2
    /\ AllOk
    /\ \A k \in Items : prev[k] = NoFile /\ Has("present", k)

(***************************************************************************)
(* C4                                                                      *)
(***************************************************************************)

\* C4: when the service fails for item k only, the finished run has called
\* the service and printed one notice for each of the n items, the notice
\* of item k is the failure notice, the file of item k is what it was when
\* the run started, and every other file is the one this run downloaded.
C4_OneFailureLeavesOthers ==
    pc = "done" =>
       \A k \in Items :
          OnlyServiceFailure(k) =>
             /\ \A m \in Items :
                   /\ Count("progress", m) = 1
                   /\ Count("call", m) = 1
                   /\ Count("saved", m) + Count("fail", m) = 1
             /\ Count("fail", k) = 1
             /\ disk[k] = prev[k]
             /\ \A m \in Items \ {k} : disk[m] = Whole(run) /\ Has("saved", m)

C4_Witness ==
    /\ pc = "done"
    /\ n >= 3
    /\ OnlyServiceFailure(2)
    /\ prev[2] # NoFile
    /\ disk[2] = prev[2]

(***************************************************************************)
(* C5                                                                      *)
(***************************************************************************)

\* C5: after two executions in a row in which every service call and every
\* download succeeded, the files in the directory are those of the list and
\* no others (the same names as after the first execution), and each holds
\* what the second execution downloaded.
C5_SecondRunOverwrites ==
    (pc = "done" /\ run >= 2 /\ PrevRunAllOk /\ AllOk) =>
       /\ {k \in DOMAIN disk : Exists(k)} = Items
       /\ {k \in DOMAIN disk : Exists(k)} = {k \in DOMAIN prev : prev[k] # NoFile}
       /\ \A k \in Items : disk[k] = Whole(run) /\ disk[k] # prev[k]

C5_Witness ==
    /\ pc = "done"
    /\ run = 2
    /\ n >= 2
    /\ PrevRunAllOk
    /\ AllOk
    /\ \A k \in Items : disk[k] = Whole(2)

(***************************************************************************)
(* C6                                                                      *)
(***************************************************************************)

\* C6: every failure of an item is caught at the item.  The notices of a
\* run are one per item the loop is through with, in list order; the
\* notice of an item is the failure notice when its service call or its
\* download failed and the success notice only when both succeeded; no
\* item is called twice; and what follows a failure notice is the pause
\* before the next item, or the summary header after the last item.
C6_FailuresCaughtPerItem ==
    LET notices == SelectSeq(events, IsNotice)
        calls == SelectSeq(events, IsCall)
    IN
    /\ Len(notices) = Cardinality({k \in Items : Handled(k)})
    /\ \A k \in DOMAIN notices :
          /\ Handled(k)
          /\ notices[k] = (IF Failed(k) THEN <<"fail", k>> ELSE <<"saved", k>>)
          /\ notices[k][1] = "saved" => (svc[k] = "ok" /\ dl[k] = "ok")
    /\ \A k \in Items : Len(SelectSeq(calls, LAMBDA ev : ev[2] = k)) <= 1
    /\ \A p \in DOMAIN events :
          (events[p][1] = "fail" /\ p < Len(events)) =>
             events[p + 1] = (IF events[p][2] < n THEN <<"wait", events[p][2]>>
                              ELSE <<"header", 0>>)
    /\ pc = "aborted" => events = <<>>

C6_Witness ==
    /\ pc = "done"
    /\ n >= 3
    /\ svc[1] = "fail"
    /\ dl[2] = "fail_partial"
    /\ Has("fail", 1)
    /\ Has("fail", 2)
    /\ Has("saved", 3)

(***************************************************************************)
(* C7                                                                      *)
(***************************************************************************)

\* C7: the summary header is printed once, after the notice of every item;
\* what follows it is one line per item in list order and then DONE, with
\* no service call and no download in between; the line of an item says
\* present exactly when its file exists, whatever the loop reported for it;
\* DONE is the last line.
C7_SummaryObservesDirectory ==
    LET h == HeaderAt IN
    /\ Count("header", 0) <= 1
    /\ Has("header", 0) <=> pc \in {"summary", "done"}
    /\ Has("done", 0) <=> pc = "done"
    /\ pc \in {"summary", "done"} =>
          /\ SelectSeq(SubSeq(events, 1, h - 1), IsNotice) =
                [k \in Items |-> IF Failed(k) THEN <<"fail", k>> ELSE <<"saved", k>>]
          /\ \A m \in 1..j :
                events[h + m] = (IF Exists(m) THEN <<"present", m>>
                                 ELSE <<"missing", m>>)
          /\ Len(events) = h + j + (IF pc = "done" THEN 1 ELSE 0)
    /\ pc = "done" => j = n /\ events[Len(events)] = <<"done", 0>>

C7_Witness ==
    /\ pc = "done"
    /\ n >= 3
    /\ Has("fail", 1) /\ Has("present", 1)
    /\ Has("fail", 2) /\ Has("missing", 2)
    /\ Has("saved", 3) /\ Has("present", 3)

(***************************************************************************)
(* C8                                                                      *)
(***************************************************************************)

\* C8: as long as the output directory does not exist the script is either
\* about to prepare it or has aborted, and it has printed nothing, called
\* nothing and written nothing; and the script aborts only when the
\* directory does not exist, never on a directory that is already there.
C8_PreparationFailureAborts ==
    /\ ~dirExists =>
          /\ pc \in {"makedirs", "aborted"}
          /\ events = <<>>
          /\ disk = prev
          /\ \A k \in Items : svc[k] = "none" /\ dl[k] = "none"
    /\ pc = "aborted" => ~dirExists

C8_Witness ==
    /\ pc = "aborted"
    /\ n >= 2
    /\ run = 2
    /\ events = <<>>

(***************************************************************************)
(* C9                                                                      *)
(***************************************************************************)

\* C9: a download that fails after part of the file was written leaves the
\* partial file in place: the item gets the failure notice and no success
\* notice, and the finished summary reports it present, not missing.
C9_PartialFileStays ==
    \A k \in Items :
       dl[k] = "fail_partial" =>
          /\ disk[k] = Partial(run)
          /\ ~Has("saved", k)
          /\ Handled(k) => Has("fail", k)
          /\ pc = "done" => Has("present", k) /\ ~Has("missing", k)

C9_Witness ==
    /\ pc = "done"
    /\ \E k \in Items :
          /\ dl[k] = "fail_partial"
          /\ prev[k] = NoFile
          /\ Has("fail", k)
          /\ Has("present", k)

(***************************************************************************)
(* C10                                                                     *)
(***************************************************************************)

\* C10: once the output directory is prepared, the run reaches DONE,
\* whatever the length of the list and whatever succeeds or fails; within a
\* run the loop index never decreases and moves by at most one item.
C10_RunTerminates ==
    /\ (pc = "for") ~> (pc = "done")
    /\ [][run' = run => (i' >= i /\ i' <= i + 1 /\ j' >= j)]_vars

C10_Witness ==
    /\ pc = "done"
    /\ n >= 2
    /\ \A k \in Items : Failed(k)
    /\ i = n - 1

====
